---- MODULE Spec2Model ----
(***************************************************************************)
(* Model of the exam-question-processor scripts:                           *)
(*   image_text_extractor.py  ImageTextExtractor (multi-model client and   *)
(*                            the round-based batch extractor), main()     *)
(*   extract_images.py        natural_sort_key, extract_text_from_image,   *)
(*                            save_extracted_text                          *)
(*   join_questions.py        natural_sort_key, extract_text_content       *)
(*                                                                         *)
(* The specifications of the module:                                       *)
(*   Spec          a run and a re-run of batch_extract_from_folder on      *)
(*                 folders of up to two images, for every argument         *)
(*   SpecScenario  one run on a folder of three images with the arguments  *)
(*                 main() passes, rate limiting in round 0 recorded        *)
(*   SpecClient    single calls of extract_text_from_image                 *)
(*   SpecSort      sorted(names, key=natural_sort_key)                     *)
(*   SpecRounds    one run with up to one round more, taken to its end     *)
(*   SpecCancel    a run of SpecRounds that may be interrupted             *)
(*   SpecPaced     one run for every delay_seconds                         *)
(*   SpecMain      main() with every API key, and the run it starts        *)
(*   SpecSingle    single calls of extract_images.extract_text_from_image  *)
(*   SpecJoin      a success artifact written, then read by the joiner     *)
(***************************************************************************)
EXTENDS Integers, Sequences, FiniteSets, TLC

VARIABLES
    \* ---- inputs of a batch run
    folder,            \* stems of the image files in folder_path matching file_pattern
    model,             \* the model argument ("None" when not given)
    skip_existing,     \* the skip_existing argument
    max_retry_rounds,  \* the max_retry_rounds argument
    delay_seconds,     \* the delay_seconds argument, in whole seconds
    \* ---- the output folder (Result Store)
    extracted,         \* <stem>_extracted.txt files: stem -> content
    errors,            \* <stem>_error.txt files: stem -> content
    summary_report,    \* summary_report.txt: <<>> (no file) or <<content>>
    \* ---- locals of batch_extract_from_folder
    pc,                \* "start", "loop", "batch", "returned", "crashed",
                       \* "interrupted"
    image_files,       \* the discovered, sorted and filtered jobs
    all_results,
    retry_queue,
    current_batch,
    i,                 \* 1-based position in current_batch
    retry_round,
    \* ---- observation of the current run
    run,               \* number of the current run of batch_extract_from_folder
    discovered,        \* sorted(folder.glob(...)) of this run, before the skip filter
    store_at_start,    \* the success artifacts that existed when this run began
    processed,         \* stem -> rounds in which extract_text_from_image was called
    last_call,         \* <<>>, or <<the latest call of extract_text_from_image>>
    ok_writes,         \* stem -> rounds in which its success artifact was written
    error_writes,      \* stem -> rounds in which its error artifact was written
    rate_limited0,     \* stems that ended round 0 with HTTP 429 from every model
    sleeps,            \* the time.sleep calls made between rounds, in order
    paused,            \* seconds the batch has slept since the latest call returned
    \* ---- one call of extract_text_from_image (SpecClient)
    call_in,           \* the arguments and the service's scripted responses
    call_out,          \* <<>> before the call, <<[result, calls]>> after it
    \* ---- sorting by natural_sort_key (SpecSort)
    names,             \* the input sequence of names
    sorted_names,      \* <<>> before sorting, <<sorted sequence>> after it
    \* ---- main() of image_text_extractor.py (SpecMain)
    args_api_key,      \* --api-key, as a sequence of characters (<<>>: not given)
    env_api_key,       \* os.getenv('OPENROUTER_API_KEY') (<<>>: not set)
    api_key,           \* main's api_key once it is resolved
    printed,           \* the notices main has printed about the key
    main_pc,           \* "direct" (main is not run), "start", "refused", "batch",
                       \* "done", "raised"
    \* ---- one call of extract_images.extract_text_from_image (SpecSingle)
    single_in,         \* the arguments and the service's scripted responses
    single_out,        \* <<>> before the call, <<what it returned and did>> after it
    \* ---- a success artifact written and read back by the joiner (SpecJoin)
    join_in,           \* the writer, its extracted text and what it adds to it
    artifact,          \* <<>> before the file is written, <<its lines>> after
    join_out           \* <<>> before the joiner reads, <<the lines it returns>> after

batch_vars == <<folder, model, skip_existing, max_retry_rounds, delay_seconds,
                extracted, errors, summary_report, pc, image_files, all_results,
                retry_queue, current_batch, i, retry_round, run, discovered,
                store_at_start, processed, last_call, ok_writes, error_writes,
                rate_limited0, sleeps, paused>>
client_vars == <<call_in, call_out>>
sort_vars == <<names, sorted_names>>
main_vars == <<args_api_key, env_api_key, api_key, printed, main_pc>>
single_vars == <<single_in, single_out>>
join_vars == <<join_in, artifact, join_out>>
vars == <<batch_vars, client_vars, sort_vars, main_vars, single_vars, join_vars>>

\* ------------------------------------------------------------------ bounds

\* Largest max_retry_rounds a run is started with.
MaxRounds == 2
\* Largest usage.total_tokens a response reports.
MaxTokens == 1
\* Longest name handed to natural_sort_key.
MaxLen == 3

\* Python's None.
None == "None"

\* ---------------------------------------------------------- names and order

\* The characters names are built from, with their code points.
Ord == ("." :> 46) @@ ("0" :> 48) @@ ("1" :> 49) @@ ("2" :> 50) @@ ("3" :> 51)
       @@ ("e" :> 101) @@ ("g" :> 103) @@ ("j" :> 106) @@ ("p" :> 112) @@ ("q" :> 113)

Digits == {"0", "1", "2", "3"}

DigitValue == ("0" :> 0) @@ ("1" :> 1) @@ ("2" :> 2) @@ ("3" :> 3)

\* Python's str.__lt__: code point by code point, a proper prefix first.
RECURSIVE str_lt(_, _)
str_lt(a, b) ==
    IF a = <<>> THEN b # <<>>
    ELSE IF b = <<>> THEN FALSE
    ELSE IF Head(a) # Head(b) THEN Ord[Head(a)] < Ord[Head(b)]
    ELSE str_lt(Tail(a), Tail(b))

\* The stems of the image files a folder may hold, as character sequences.
NameChars == [q1 |-> <<"q", "1">>, q2 |-> <<"q", "2">>, q3 |-> <<"q", "3">>,
              q10 |-> <<"q", "1", "0">>, q11 |-> <<"q", "1", "1">>]

Stems == DOMAIN NameChars

\* file_pattern's default, "*.jpeg": every discovered file ends in .jpeg.
Suffix == <<".", "j", "p", "e", "g">>

FileName(stem) == NameChars[stem] \o Suffix

\* ------------------------------------------- the completion service's answers

\* The roster entries and model arguments a call is made with.
Models == {"A", "B"}

\* result.get("usage"): absent from the response, or {"total_tokens": t}.
NoUsage == [present |-> FALSE, total_tokens |-> 0]

Usage(t) == [present |-> TRUE, total_tokens |-> t]

Usages == {NoUsage} \cup {Usage(t) : t \in 1..MaxTokens}

\* What requests.post / raise_for_status / response.json() can produce for one
\* request: a timeout or connection error (kind "timeout"), an HTTP error
\* status, a 200 whose body has no choices, or a 200 with content, the model
\* identifier the service reports ("None" when the field is missing) and usage.
Timeout == [kind |-> "timeout", status |-> 0, choices |-> FALSE,
            model |-> None, usage |-> NoUsage]

HttpError(status) == [kind |-> "http", status |-> status, choices |-> FALSE,
                      model |-> None, usage |-> NoUsage]

Ok(m, u) == [kind |-> "http", status |-> 200, choices |-> TRUE,
             model |-> m, usage |-> u]

ErrorStatuses == {400, 401, 429, 500}

ServiceResponses ==
    {Timeout} \cup {HttpError(s) : s \in ErrorStatuses \cup {200}}
    \cup {Ok(m, u) : m \in Models \cup {None}, u \in Usages}

\* str(e) of the HTTPError raise_for_status raises.
HTTPErrorText(status) ==
    CASE status = 400 -> "400 Client Error"
      [] status = 401 -> "401 Client Error"
      [] status = 429 -> "429 Client Error"
      [] OTHER -> "500 Server Error"

\* --------------------------- ImageTextExtractor.extract_text_from_image

SuccessResult(image_path, r, attempt) ==
    [success |-> TRUE, image_path |-> image_path, model |-> r.model,
     usage |-> r.usage, attempts |-> attempt, error |-> None, error_type |-> None]

\* The failure dict has no model, usage or attempts key: the fields are fillers.
FailureResult(image_path, error, error_type) ==
    [success |-> FALSE, image_path |-> image_path, model |-> None,
     usage |-> NoUsage, attempts |-> 0, error |-> error, error_type |-> error_type]

\* next_model without the test of retry_with_other_models.
next_model_unconditional(retry_with_other_models, attempt, n) == attempt < n

\* next_model that never moves on.
next_model_never(retry_with_other_models, attempt, n) == FALSE

\* next_model, off by one: the last model of the roster is never moved on to.
next_model_but_last(retry_with_other_models, attempt, n) ==
    retry_with_other_models /\ attempt < n - 1

\* Lines 194 and 204: after a 429 or a 400 the loop moves on to the next model
\* when retry_with_other_models is set and a model is left.
next_model(retry_with_other_models, attempt, n) ==
    retry_with_other_models /\ attempt < n

\* The for loop over enumerate(models_to_try, 1), from iteration `attempt` on.
\* responses[k] is what the k-th request of this call meets. The value is the
\* returned dict (result) with the models requests.post was called with (calls).
RECURSIVE models_loop(_, _, _, _, _, _)
models_loop(image_path, models_to_try, responses, retry_with_other_models, max_retries, attempt) ==
    LET r == responses[attempt]
        more == attempt < Len(models_to_try)
        another == next_model(retry_with_other_models, attempt, Len(models_to_try))
        failed(error, error_type) ==
            [result |-> FailureResult(image_path, error, error_type),
             calls |-> SubSeq(models_to_try, 1, attempt)]
        continue(error, error_type) ==
            IF more
            THEN models_loop(image_path, models_to_try, responses,
                             retry_with_other_models, max_retries, attempt + 1)
            ELSE failed(error, error_type)
    IN  IF r.kind = "timeout"
        THEN IF attempt < max_retries
             THEN continue("timed out", "Timeout")
             ELSE failed("timed out", "Timeout")
        ELSE IF r.status = 200
        THEN IF r.choices
             THEN [result |-> SuccessResult(image_path, r, attempt),
                   calls |-> SubSeq(models_to_try, 1, attempt)]
             ELSE failed("'choices'", "KeyError")
        ELSE IF r.status \in {429, 400}
        THEN IF another
             THEN continue(HTTPErrorText(r.status), "HTTPError")
             ELSE failed(HTTPErrorText(r.status), "HTTPError")
        ELSE failed(HTTPErrorText(r.status), "HTTPError")

\* models_to_try that takes the roster whatever the model argument is.
models_to_try_roster(roster, model_arg) == roster

\* models_to_try = [model] if model else self.vision_models.copy()
models_to_try(roster, model_arg) == IF model_arg # None THEN <<model_arg>> ELSE roster

\* Lines 52-63: open(image_path, 'rb') raises when the file cannot be read;
\* otherwise the size bytes that are read, of any number, are encoded into
\* 4 * ceil(size / 3) base64 characters.
encode_image_to_base64(readable, size) ==
    [raised |-> ~readable,
     base64_len |-> IF readable THEN 4 * ((size + 2) \div 3) ELSE 0]

\* extract_text_from_image without the try around the encoding: the requests
\* are made whatever the encoding did.
extract_text_unencoded(image_path, readable, roster, model_arg, retry_with_other_models, max_retries, responses) ==
    LET to_try == models_to_try(roster, model_arg)
    IN  IF to_try = <<>>
        THEN [result |-> FailureResult(image_path, None, None), calls |-> <<>>]
        ELSE models_loop(image_path, to_try, responses,
                         retry_with_other_models, max_retries, 1)

\* readable: whether encode_image_to_base64 returned (it did not raise).
extract_text_from_image(image_path, readable, roster, model_arg, retry_with_other_models, max_retries, responses) ==
    LET to_try == models_to_try(roster, model_arg)
    IN  IF ~readable
        THEN [result |-> FailureResult(image_path, "Failed to read image", "OSError"),
              calls |-> <<>>]
        ELSE IF to_try = <<>>
        THEN [result |-> FailureResult(image_path, None, None), calls |-> <<>>]
        ELSE models_loop(image_path, to_try, responses,
                         retry_with_other_models, max_retries, 1)

\* The scripts of service answers a call with this roster can meet.
Scripts(to_try) == [1..Len(to_try) -> ServiceResponses]

\* ------------------------------- ImageTextExtractor._create_summary_report

RECURSIVE count_success(_)
count_success(results) ==
    IF results = <<>> THEN 0
    ELSE (IF Head(results).success THEN 1 ELSE 0) + count_success(Tail(results))

\* sum(r.get("usage", {}).get("total_tokens", 0) for r in results if r["success"])
RECURSIVE sum_tokens(_)
sum_tokens(results) ==
    IF results = <<>> THEN 0
    ELSE (IF Head(results).success THEN Head(results).usage.total_tokens ELSE 0)
         + sum_tokens(Tail(results))

\* failed_lines without the test of result["success"]: every result is listed.
failed_lines_unfiltered(results) ==
    [k \in 1..Len(results) |->
        [name |-> results[k].image_path, error |-> results[k].error]]

RECURSIVE failed_lines(_)
failed_lines(results) ==
    IF results = <<>> THEN <<>>
    ELSE (IF Head(results).success THEN <<>>
          ELSE << [name |-> Head(results).image_path, error |-> Head(results).error] >>)
         \o failed_lines(Tail(results))

\* fail_count without the subtraction.
fail_count_unsubtracted(results) == Len(results)

\* Line 411: fail_count = len(results) - success_count
fail_count_of(results) == Len(results) - count_success(results)

\* The report file as far as it gets written, and whether the function raised:
\* ZeroDivisionError at the success-rate line when results is empty, and
\* AttributeError at the token sum when a success carries usage None.
create_summary_report(results) ==
    LET success_count == count_success(results)
        fail_count == fail_count_of(results)
        head == [total |-> Len(results), successful |-> success_count,
                 failed |-> fail_count, failed_images |-> <<>>,
                 total_tokens |-> 0, complete |-> FALSE]
    IN  IF Len(results) = 0
        THEN [raised |-> TRUE, file |-> head]
        ELSE IF \E k \in 1..Len(results) :
                    results[k].success /\ ~results[k].usage.present
        THEN [raised |-> TRUE,
              file |-> [head EXCEPT !.failed_images = failed_lines(results)]]
        ELSE [raised |-> FALSE,
              file |-> [head EXCEPT !.failed_images = failed_lines(results),
                                    !.total_tokens = sum_tokens(results),
                                    !.complete = TRUE]]

\* ---------------------------- ImageTextExtractor.batch_extract_from_folder

\* The folders Spec starts on (the stems of their *.jpeg files).
Folders == {{}, {"q1"}, {"q1", "q2"}}

\* The folders a re-run is explored on: with skip_existing (the only mode
\* main() uses) all of them, without it the folder of one image.
RerunFolders(skip) == IF skip THEN Folders ELSE {{"q1"}}

\* The folders SpecScenario starts on.
ScenarioFolders == {{"q1", "q2", "q3"}, {"q2", "q10", "q11"}}

\* The runs explored on one output folder: a run and a re-run.
Runs == {1, 2}

\* self.vision_models (lines 39-48), the roster in fallback order. The list is
\* written for several candidates and ships with all but one commented out;
\* two are kept here so that the fallback branches run, and a roster of one
\* is what a model argument gives.
vision_models == <<"A", "B">>

\* The model arguments the runs are made with.
ModelArgs == {None, "B"}

\* An output folder holding no artifact.
EmptyStore == [s \in {} |-> None]

NoHistory == [s \in Stems |-> <<>>]

\* sorted(folder.glob(file_pattern)): paths of one directory, ordered as their
\* file names are by str.__lt__.
RECURSIVE sorted_paths(_)
sorted_paths(stems) ==
    IF stems = {} THEN <<>>
    ELSE LET first == CHOOSE f \in stems :
                          \A g \in stems \ {f} : str_lt(FileName(f), FileName(g))
         IN  <<first>> \o sorted_paths(stems \ {first})

\* The scripts of a run: the service reports the model it was asked for.
EchoScripts(to_try) ==
    {s \in Scripts(to_try) :
        \A k \in 1..Len(to_try) : s[k].choices => s[k].model = to_try[k]}

BatchInit(folders, model_args, skips, rounds) ==
    /\ folder \in folders
    /\ model \in model_args
    /\ skip_existing \in skips
    /\ max_retry_rounds \in rounds
    /\ extracted = EmptyStore
    /\ errors = EmptyStore
    /\ summary_report = <<>>
    /\ pc = "start"
    /\ image_files = <<>>
    /\ all_results = <<>>
    /\ retry_queue = <<>>
    /\ current_batch = <<>>
    /\ i = 0
    /\ retry_round = 0
    /\ run = 1
    /\ discovered = <<>>
    /\ store_at_start = EmptyStore
    /\ processed = NoHistory
    /\ last_call = <<>>
    /\ ok_writes = NoHistory
    /\ error_writes = NoHistory
    /\ rate_limited0 = {}
    /\ sleeps = <<>>
    /\ paused = 0

\* delay_seconds: float = 1.0 (line 246), and --delay's default (line 507).
DefaultDelay == 1

ClientIdle == call_in = <<>> /\ call_out = <<>>

SortIdle == names = <<>> /\ sorted_names = <<>>

\* batch_extract_from_folder is called directly: main() is not run.
MainIdle ==
    /\ args_api_key = <<>>
    /\ env_api_key = <<>>
    /\ api_key = <<>>
    /\ printed = <<>>
    /\ main_pc = "direct"

SingleIdle == single_in = <<>> /\ single_out = <<>>

JoinIdle == join_in = <<>> /\ artifact = <<>> /\ join_out = <<>>

Init ==
    /\ BatchInit(Folders, ModelArgs, BOOLEAN, 0..MaxRounds)
    /\ delay_seconds = DefaultDelay
    /\ ClientIdle
    /\ SortIdle
    /\ MainIdle
    /\ SingleIdle
    /\ JoinIdle

params == <<folder, model, skip_existing, max_retry_rounds, delay_seconds>>
history == <<processed, last_call, ok_writes, error_writes, rate_limited0>>

\* skip_filter that lets every file through.
skip_nothing(found) == found

\* Lines 279-294: with skip_existing, the files whose <stem>_extracted.txt
\* exists are left out.
skip_filter(found) ==
    IF skip_existing
    THEN SelectSeq(found, LAMBDA f : f \notin DOMAIN extracted)
    ELSE found

\* Lines 267-308: discovery, the skip_existing filter, the two early returns.
Discover ==
    /\ pc = "start"
    /\ discovered' = sorted_paths(folder)
    /\ store_at_start' = extracted
    /\ image_files' = skip_filter(discovered')
    /\ IF image_files' = <<>>
       THEN pc' = "returned" /\ UNCHANGED retry_queue
       ELSE pc' = "loop" /\ retry_queue' = image_files'
    /\ UNCHANGED <<params, extracted, errors, summary_report, all_results,
                   current_batch, i, retry_round, run, history, sleeps, paused>>
    /\ UNCHANGED <<client_vars, sort_vars, main_vars, single_vars, join_vars>>

\* loop_condition without the limit on the rounds.
loop_until_empty == retry_queue # <<>>

\* while retry_queue and retry_round < max_retry_rounds
loop_condition == retry_queue # <<>> /\ retry_round < max_retry_rounds

\* Lines 310-317: a round begins.
BeginRound ==
    /\ pc = "loop"
    /\ loop_condition
    /\ current_batch' = retry_queue
    /\ retry_queue' = <<>>
    /\ i' = 1
    /\ pc' = "batch"
    /\ UNCHANGED <<params, extracted, errors, summary_report, image_files,
                   all_results, retry_round, run, discovered, store_at_start,
                   history, sleeps, paused>>
    /\ UNCHANGED <<client_vars, sort_vars, main_vars, single_vars, join_vars>>

\* requeue, off by one: the failures of the last round are queued as well.
requeue_last_round_too(round, max_rounds) == round < max_rounds

\* requeue, never: every failure is recorded in the round it happens in.
requeue_never(round, max_rounds) == FALSE

\* Line 362: a failure is put back into the queue unless this is the last round.
requeue(round, max_rounds) == round < max_rounds - 1

\* Lines 339-348: <stem>_extracted.txt. The token footer is written only when
\* result["usage"] is a dict; with usage None line 348 raises AttributeError
\* after the header and the text are written.
success_artifact(image_file, result, round) ==
    [Image |-> image_file, Model |-> result.model, RetryRound |-> round + 1,
     footer |-> result.usage.present, Tokens |-> result.usage.total_tokens]

\* Lines 368-373: <stem>_error.txt.
error_artifact(image_file, result, round) ==
    [Image |-> image_file, Error |-> result.error,
     ErrorType |-> result.error_type, RetryRounds |-> round + 1]

\* Whether every model of the roster was asked and answered 429.
all_rate_limited(to_try, responses, out) ==
    /\ ~out.result.success
    /\ Len(out.calls) = Len(to_try)
    /\ \A k \in 1..Len(to_try) : responses[k].status = 429

\* Lines 378-379: time.sleep(delay_seconds) after every job of the batch but
\* the last; k is the job's 1-based position, n the length of the batch.
job_delay(k, n) == IF k < n THEN delay_seconds ELSE 0

\* Lines 319-379: one iteration of the for loop over current_batch. observe
\* switches the record of rate limiting in round 0 on; it changes nothing else.
Job(observe) ==
    /\ pc = "batch"
    /\ i <= Len(current_batch)
    /\ LET image_file == current_batch[i]
           to_try == models_to_try(vision_models, model)
       IN  \E readable \in BOOLEAN, responses \in EchoScripts(to_try) :
             LET out == extract_text_from_image(image_file, readable, vision_models,
                                                model, TRUE, 3, responses)
                 result == out.result
             IN  /\ processed' = [processed EXCEPT ![image_file] = Append(@, retry_round)]
                 /\ last_call' = << [image_file |-> image_file, round |-> retry_round,
                                     calls |-> out.calls, result |-> result] >>
                 /\ paused' = IF result.success /\ ~result.usage.present
                               THEN 0
                               ELSE job_delay(i, Len(current_batch))
                 /\ rate_limited0' =
                        IF observe /\ retry_round = 0
                           /\ all_rate_limited(to_try, responses, out)
                        THEN rate_limited0 \cup {image_file}
                        ELSE rate_limited0
                 /\ IF result.success
                    THEN /\ extracted' =
                               (image_file :> success_artifact(image_file, result, retry_round))
                               @@ extracted
                         /\ ok_writes' = [ok_writes EXCEPT ![image_file] = Append(@, retry_round)]
                         /\ IF result.usage.present
                            THEN /\ all_results' = Append(all_results, result)
                                 /\ i' = i + 1
                                 /\ pc' = "batch"
                            ELSE /\ pc' = "crashed"
                                 /\ UNCHANGED <<all_results, i>>
                         /\ UNCHANGED <<errors, error_writes, retry_queue>>
                    ELSE /\ IF requeue(retry_round, max_retry_rounds)
                            THEN /\ retry_queue' = Append(retry_queue, image_file)
                                 /\ UNCHANGED <<errors, error_writes, all_results>>
                            ELSE /\ errors' =
                                       (image_file :> error_artifact(image_file, result, retry_round))
                                       @@ errors
                                 /\ error_writes' =
                                       [error_writes EXCEPT ![image_file] = Append(@, retry_round)]
                                 /\ all_results' = Append(all_results, result)
                                 /\ UNCHANGED retry_queue
                         /\ i' = i + 1
                         /\ pc' = "batch"
                         /\ UNCHANGED <<extracted, ok_writes>>
    /\ UNCHANGED <<params, summary_report, image_files, current_batch, retry_round,
                   run, discovered, store_at_start, sleeps>>
    /\ UNCHANGED <<client_vars, sort_vars, main_vars, single_vars, join_vars>>

ProcessJob == Job(FALSE)

ProcessJobObserved == Job(TRUE)

\* Line 385: the seconds of a cooldown are 5 times the incremented retry_round.
CooldownStep == 5

\* delay_time that does not grow with the round.
delay_time_flat(round) == CooldownStep

\* Line 385: delay_time = 5 * retry_round
delay_time(round) == CooldownStep * round

\* Lines 384-387: the sleep between rounds, made only if a job is queued.
cooldown(queue, round) ==
    IF queue # <<>>
    THEN <<[before_round |-> round, seconds |-> delay_time(round)]>>
    ELSE <<>>

\* Lines 381-387: the round ends.
EndRound ==
    /\ pc = "batch"
    /\ i > Len(current_batch)
    /\ retry_round' = retry_round + 1
    /\ LET slept == cooldown(retry_queue, retry_round')
       IN  /\ sleeps' = sleeps \o slept
           /\ paused' = paused + (IF slept = <<>> THEN 0 ELSE slept[1].seconds)
    /\ pc' = "loop"
    /\ UNCHANGED <<params, extracted, errors, summary_report, image_files,
                   all_results, retry_queue, current_batch, i, run, discovered,
                   store_at_start, history>>
    /\ UNCHANGED <<client_vars, sort_vars, main_vars, single_vars, join_vars>>

\* Lines 389-398: the loop is left, the report is written, all_results returned.
Report ==
    /\ pc = "loop"
    /\ ~loop_condition
    /\ LET report == create_summary_report(all_results)
       IN  /\ summary_report' = <<report.file>>
           /\ pc' = IF report.raised THEN "crashed" ELSE "returned"
    /\ UNCHANGED <<params, extracted, errors, image_files, all_results,
                   retry_queue, current_batch, i, retry_round, run, discovered,
                   store_at_start, history, sleeps, paused>>
    /\ UNCHANGED <<client_vars, sort_vars, main_vars, single_vars, join_vars>>

\* batch_extract_from_folder is called again with the same arguments: the
\* output folder keeps its files, the locals start afresh.
RunAgain ==
    /\ pc \in {"returned", "crashed"}
    /\ run + 1 \in Runs
    /\ folder \in RerunFolders(skip_existing)
    /\ run' = run + 1
    /\ pc' = "start"
    /\ image_files' = <<>>
    /\ all_results' = <<>>
    /\ retry_queue' = <<>>
    /\ current_batch' = <<>>
    /\ i' = 0
    /\ retry_round' = 0
    /\ discovered' = <<>>
    /\ store_at_start' = extracted
    /\ processed' = NoHistory
    /\ last_call' = <<>>
    /\ ok_writes' = NoHistory
    /\ error_writes' = NoHistory
    /\ rate_limited0' = {}
    /\ sleeps' = <<>>
    /\ paused' = 0
    /\ UNCHANGED <<params, extracted, errors, summary_report>>
    /\ UNCHANGED <<client_vars, sort_vars, main_vars, single_vars, join_vars>>

Next == Discover \/ BeginRound \/ ProcessJob \/ EndRound \/ Report \/ RunAgain

Spec == Init /\ [][Next]_vars

\* One run on a folder of three images, called as main() calls it (lines
\* 564-571: model and skip_existing are left at their defaults).
\* The folder of q2, q10 and q11 is there for the order of discovery and is
\* run with one round.
ScenarioInit ==
    /\ BatchInit(ScenarioFolders, {None}, {TRUE}, 1..MaxRounds)
    /\ delay_seconds = DefaultDelay
    /\ folder = {"q2", "q10", "q11"} => max_retry_rounds = 1
    /\ ClientIdle
    /\ SortIdle
    /\ MainIdle
    /\ SingleIdle
    /\ JoinIdle

ScenarioNext == Discover \/ BeginRound \/ ProcessJobObserved \/ EndRound \/ Report

SpecScenario == ScenarioInit /\ [][ScenarioNext]_vars

\* One run with up to one round more than Spec starts with, on the folders of
\* Spec, for the cooldowns between rounds and for the end of the loop. Every
\* step of the run is taken once it can be: the code is sequential and each
\* request returns or times out (timeout=120, line 168).
RoundsInit ==
    /\ BatchInit(Folders, ModelArgs, {TRUE}, 0..(MaxRounds + 1))
    /\ delay_seconds = DefaultDelay
    /\ ClientIdle
    /\ SortIdle
    /\ MainIdle
    /\ SingleIdle
    /\ JoinIdle

RoundsNext == Discover \/ BeginRound \/ ProcessJob \/ EndRound \/ Report

SpecRounds == RoundsInit /\ [][RoundsNext]_vars /\ WF_vars(RoundsNext)

\* Lines 310-398, interrupted: the run is cancelled (Ctrl-C, SIGINT) between
\* two iterations, where it sleeps (lines 379 and 387). KeyboardInterrupt is
\* not an Exception: no handler of the module catches it, neither the loop
\* nor main() has one, and batch_extract_from_folder ends where it stands.
Interrupt ==
    /\ pc \in {"loop", "batch"}
    /\ pc' = "interrupted"
    /\ UNCHANGED <<params, extracted, errors, summary_report, image_files,
                   all_results, retry_queue, current_batch, i, retry_round, run,
                   discovered, store_at_start, history, sleeps, paused>>
    /\ UNCHANGED <<client_vars, sort_vars, main_vars, single_vars, join_vars>>

CancelNext == RoundsNext \/ Interrupt

\* One run of SpecRounds that may be cancelled.
SpecCancel == RoundsInit /\ [][CancelNext]_vars

\* The batch variables while another specification runs.
BatchIdle == BatchInit({{}}, {None}, {TRUE}, {0}) /\ delay_seconds = DefaultDelay

\* The delay_seconds the paced runs are made with: none (--delay 0) and the
\* default.
Delays == {0, DefaultDelay}

\* One run for every delay_seconds, on the folders of Spec.
PacedInit ==
    /\ BatchInit(Folders, ModelArgs, {TRUE}, 0..MaxRounds)
    /\ delay_seconds \in Delays
    /\ ClientIdle
    /\ SortIdle
    /\ MainIdle
    /\ SingleIdle
    /\ JoinIdle

SpecPaced == PacedInit /\ [][RoundsNext]_vars

\* ---------------------------------------------------- main() and the API key

\* api_key.startswith('sk-or-')
KeyPrefix == <<"s", "k", "-", "o", "r", "-">>

\* The keys main() is run with: none, one of the expected format, one of
\* another format.
Keys == {<<>>, KeyPrefix \o <<"1">>, <<"s", "k", "-", "1">>}

\* str.startswith
startswith(str, prefix) ==
    Len(str) >= Len(prefix) /\ SubSeq(str, 1, Len(prefix)) = prefix

\* a or b, of two strings or None: the first that is not empty.
or_else(a, b) == IF a # <<>> THEN a ELSE b

\* Lines 28-34: ImageTextExtractor.__init__ takes the key it is given or the
\* environment's, and raises ValueError when there is none.
init_api_key(key, env) ==
    [raised |-> or_else(key, env) = <<>>, api_key |-> or_else(key, env)]

\* check_api_key that refuses a key of another format.
check_api_key_strict(key, env) ==
    [proceed |-> startswith(key, KeyPrefix),
     printed |-> IF key = <<>> THEN <<"no API key">>
                 ELSE IF ~startswith(key, KeyPrefix) THEN <<"key format">>
                 ELSE <<>>]

\* Lines 526-553: without a key main prints a notice and returns; a key that
\* does not start with the prefix gets a warning; the extractor is built, and
\* main returns if that raises ValueError.
check_api_key(key, env) ==
    IF key = <<>>
    THEN [proceed |-> FALSE, printed |-> <<"no API key">>]
    ELSE [proceed |-> ~init_api_key(key, env).raised,
          printed |-> IF ~startswith(key, KeyPrefix) THEN <<"key format">> ELSE <<>>]

\* Lines 523-553: main() up to the call of batch_extract_from_folder.
Main ==
    /\ main_pc = "start"
    /\ api_key' = or_else(args_api_key, env_api_key)
    /\ LET checked == check_api_key(api_key', env_api_key)
       IN  /\ printed' = checked.printed
           /\ main_pc' = IF checked.proceed THEN "batch" ELSE "refused"
    /\ UNCHANGED <<args_api_key, env_api_key>>
    /\ UNCHANGED <<batch_vars, client_vars, sort_vars, single_vars, join_vars>>

\* Lines 564-571: the steps of batch_extract_from_folder, called by main.
RunBatch == main_pc = "batch" /\ RoundsNext

\* Lines 564-573: the batch returns and main prints its last line, or the
\* batch raises and its exception leaves main.
MainEnd ==
    /\ main_pc = "batch"
    /\ pc \in {"returned", "crashed"}
    /\ main_pc' = IF pc = "returned" THEN "done" ELSE "raised"
    /\ UNCHANGED <<args_api_key, env_api_key, api_key, printed>>
    /\ UNCHANGED <<batch_vars, client_vars, sort_vars, single_vars, join_vars>>

\* main() with every key of Keys given by flag and by environment; model and
\* skip_existing are left at their defaults (lines 564-571).
MainInit ==
    /\ BatchInit(Folders, {None}, {TRUE}, 0..MaxRounds)
    /\ delay_seconds = DefaultDelay
    /\ ClientIdle
    /\ SortIdle
    /\ SingleIdle
    /\ JoinIdle
    /\ args_api_key \in Keys
    /\ env_api_key \in Keys
    /\ api_key = <<>>
    /\ printed = <<>>
    /\ main_pc = "start"

MainNext == Main \/ RunBatch \/ MainEnd

SpecMain == MainInit /\ [][MainNext]_vars

\* ------------------------------------ single calls of extract_text_from_image

\* The rosters single calls are made with.
ClientRosters == {<<>>, <<"A">>, <<"A", "B">>}

\* max_retries: 3 by default (line 94) and in the batch's call (line 329).
DefaultMaxRetries == 3

\* The sizes in bytes of the image file of a single call: empty or not.
FileSizes == {0, 3}

ClientInputs ==
    [readable : BOOLEAN, size : FileSizes, roster : ClientRosters, model : Models \cup {None},
     retry_with_other_models : BOOLEAN, max_retries : 1..DefaultMaxRetries]

ClientInit ==
    /\ BatchIdle
    /\ SortIdle
    /\ MainIdle
    /\ SingleIdle
    /\ JoinIdle
    /\ call_in \in {<<in>> : in \in ClientInputs}
    /\ call_out = <<>>

\* One call. script is what the service would answer to each request in turn,
\* seen the part of it the call consumed, base64_len the length of the image
\* data in the payload of its requests.
Call ==
    /\ call_out = <<>>
    /\ LET in == call_in[1]
           to_try == models_to_try(in.roster, in.model)
       IN  \E responses \in Scripts(to_try) :
             LET encoded == encode_image_to_base64(in.readable, in.size)
                 out == extract_text_from_image("q1", ~encoded.raised, in.roster, in.model,
                                                in.retry_with_other_models,
                                                in.max_retries, responses)
             IN  call_out' = << [result |-> out.result, calls |-> out.calls,
                                 script |-> responses,
                                 base64_len |-> encoded.base64_len,
                                 seen |-> SubSeq(responses, 1, Len(out.calls))] >>
    /\ UNCHANGED <<call_in, batch_vars, sort_vars, main_vars, single_vars, join_vars>>

ClientNext == Call

SpecClient == ClientInit /\ [][ClientNext]_vars

\* ------------------------------------------------------- natural_sort_key

\* Length of the longest prefix of s made of digits (digit) or of none.
RECURSIVE run_length(_, _)
run_length(s, digit) ==
    IF s = <<>> \/ ((Head(s) \in Digits) # digit) THEN 0
    ELSE 1 + run_length(Tail(s), digit)

\* re.split(r'(\d+)', s): the text before the first digit run, then each digit
\* run followed by the text after it (empty where there is none).
RECURSIVE re_split(_, _)
re_split(s, digit) ==
    LET n == run_length(s, digit)
        part == SubSeq(s, 1, n)
        rest == SubSeq(s, n + 1, Len(s))
    IN  IF digit THEN <<part>> \o re_split(rest, FALSE)
        ELSE IF rest = <<>> THEN <<part>>
        ELSE <<part>> \o re_split(rest, TRUE)

\* part.isdigit()
isdigit(part) == part # <<>> /\ \A k \in 1..Len(part) : part[k] \in Digits

\* int(part)
RECURSIVE int_of(_)
int_of(part) ==
    IF part = <<>> THEN 0
    ELSE 10 * int_of(SubSeq(part, 1, Len(part) - 1)) + DigitValue[part[Len(part)]]

\* One element of the key: an int or a str.
key_part(part) ==
    IF isdigit(part) THEN [is_int |-> TRUE, int |-> int_of(part), str |-> <<>>]
    ELSE [is_int |-> FALSE, int |-> 0, str |-> part]

natural_sort_key(filename) ==
    LET parts == re_split(filename, FALSE)
    IN  [k \in 1..Len(parts) |-> key_part(parts[k])]

\* Python's list comparison of two keys: "lt", "eq", "gt", or "TypeError" when
\* the first differing elements are an int and a str.
RECURSIVE key_cmp(_, _)
key_cmp(a, b) ==
    IF a = <<>> THEN (IF b = <<>> THEN "eq" ELSE "lt")
    ELSE IF b = <<>> THEN "gt"
    ELSE IF Head(a) = Head(b) THEN key_cmp(Tail(a), Tail(b))
    ELSE IF Head(a).is_int # Head(b).is_int THEN "TypeError"
    ELSE IF Head(a).is_int THEN (IF Head(a).int < Head(b).int THEN "lt" ELSE "gt")
    ELSE IF str_lt(Head(a).str, Head(b).str) THEN "lt" ELSE "gt"

natural_lt(x, y) == key_cmp(natural_sort_key(x), natural_sort_key(y)) = "lt"

\* sorted(..., key=natural_sort_key) is stable: an element goes before the
\* first one it is less than, after every one it is equal to.
RECURSIVE insert_sorted(_, _)
insert_sorted(done, x) ==
    IF done = <<>> THEN <<x>>
    ELSE IF natural_lt(x, Head(done)) THEN <<x>> \o done
    ELSE <<Head(done)>> \o insert_sorted(Tail(done), x)

RECURSIVE natural_sorted(_)
natural_sorted(list) ==
    IF list = <<>> THEN <<>>
    ELSE insert_sorted(natural_sorted(SubSeq(list, 1, Len(list) - 1)), list[Len(list)])

\* The characters of the names that are sorted.
SortChars == {"q", "0", "1", "2"}

NamesUpTo(n) == UNION {[1..k -> SortChars] : k \in 0..n}

\* The lists that are sorted: every pair of names, and the lists of three
\* made of q1, q2 and q10.
SampleNames == {<<"q", "1">>, <<"q", "2">>, <<"q", "1", "0">>}

SortInputs ==
    {<<a, b>> : a, b \in NamesUpTo(MaxLen)}
    \cup {<<a, b, c>> : a, b, c \in SampleNames}

SortInit ==
    /\ BatchIdle
    /\ ClientIdle
    /\ MainIdle
    /\ SingleIdle
    /\ JoinIdle
    /\ names \in SortInputs
    /\ sorted_names = <<>>

\* image_files = sorted(image_files, key=natural_sort_key)
Sort ==
    /\ sorted_names = <<>>
    /\ sorted_names' = <<natural_sorted(names)>>
    /\ UNCHANGED <<names, batch_vars, client_vars, main_vars, single_vars, join_vars>>

SortNext == Sort

SpecSort == SortInit /\ [][SortNext]_vars

\* ------------------------------------ extract_images.extract_text_from_image

\* requests.exceptions.ConnectionError: a RequestException that is no Timeout.
ConnectionError == [kind |-> "network", status |-> 0, choices |-> FALSE,
                    model |-> None, usage |-> NoUsage]

\* What one request of the single-model client can meet.
SingleResponses ==
    {Timeout, ConnectionError} \cup {HttpError(st) : st \in ErrorStatuses \cup {200}}
    \cup {Ok("A", Usage(1))}

\* Line 135: wait_time = 60 after a 429.
RateLimitWait == 60

\* Lines 145, 167, 176: wait_time = 2 ** attempt
backoff(attempt) == 2 ^ attempt

\* may_retry that holds on the final attempt too.
may_retry_always(attempt, max_retries) == TRUE

\* Lines 136, 146, 168, 177: if attempt < max_retries - 1
may_retry(attempt, max_retries) == attempt < max_retries - 1

\* Lines 129-187: for attempt in range(max_retries), from iteration `attempt`
\* on. responses[attempt + 1] is what the request of iteration attempt meets.
\* calls is the number of requests made, waits the time.sleep calls in order.
\* A 4xx status other than 429 passes the two status tests and is raised by
\* raise_for_status() as HTTPError, a RequestException: the handler of line
\* 175 takes it.
RECURSIVE retry_loop(_, _, _, _)
retry_loop(responses, max_retries, attempt, waits) ==
    IF attempt >= max_retries
    THEN [text |-> FALSE, error |-> "Failed after all retries",
          calls |-> attempt, waits |-> waits]
    ELSE LET r == responses[attempt + 1]
             return(text, error) ==
                 [text |-> text, error |-> error, calls |-> attempt + 1, waits |-> waits]
             retry(wait_time, error) ==
                 IF may_retry(attempt, max_retries)
                 THEN retry_loop(responses, max_retries, attempt + 1,
                                 Append(waits, [after |-> attempt, seconds |-> wait_time]))
                 ELSE return(FALSE, error)
         IN  IF r.kind = "timeout"
             THEN retry(backoff(attempt), "Request timeout after all retries")
             ELSE IF r.kind = "network"
             THEN retry(backoff(attempt), "Network error after all retries")
             ELSE IF r.status = 429
             THEN retry(RateLimitWait, "Rate limit exceeded after all retries")
             ELSE IF r.status >= 500
             THEN retry(backoff(attempt), "Server error after all retries")
             ELSE IF r.status >= 400
             THEN retry(backoff(attempt), "Network error after all retries")
             ELSE IF r.choices
             THEN return(TRUE, None)
             ELSE return(FALSE, "No content in API response")

\* Lines 61-187 of extract_images.py. readable: whether encode_image_to_base64
\* returned (lines 83-86).
extract_images_extract_text_from_image(readable, max_retries, responses) ==
    IF ~readable
    THEN [text |-> FALSE, error |-> "Failed to encode image", calls |-> 0, waits |-> <<>>]
    ELSE retry_loop(responses, max_retries, 0, <<>>)

\* Largest max_retries a single call is made with (3 is the default, line 65).
MaxRetries == 3

\* A call for every max_retries up to MaxRetries and every script of answers
\* to the requests it can make.
SingleInputs ==
    UNION {[readable : BOOLEAN, max_retries : {n}, responses : [1..n -> SingleResponses]]
           : n \in 0..MaxRetries}

SingleInit ==
    /\ BatchIdle
    /\ ClientIdle
    /\ SortIdle
    /\ MainIdle
    /\ JoinIdle
    /\ single_in \in {<<in>> : in \in SingleInputs}
    /\ single_out = <<>>

\* One call. seen is the part of the script the call consumed.
SingleCall ==
    /\ single_out = <<>>
    /\ LET in == single_in[1]
           out == extract_images_extract_text_from_image(in.readable, in.max_retries,
                                                         in.responses)
       IN  single_out' = << [text |-> out.text, error |-> out.error,
                             calls |-> out.calls, waits |-> out.waits,
                             seen |-> SubSeq(in.responses, 1, out.calls)] >>
    /\ UNCHANGED <<single_in, batch_vars, client_vars, sort_vars, main_vars, join_vars>>

SingleNext == SingleCall

SpecSingle == SingleInit /\ [][SingleNext]_vars

\* ------------------------- success artifacts and join_questions' reader

\* Strings are held as their lines, content.split('\n'): the empty string is
\* the one empty line. A line is a word for its text; no line but the empty
\* one begins or ends with white space.

\* "=" * 80, the separator both extractors write.
Separator == "================ 80 ================"

\* A line of the extracted text that holds forty "=" in a row or more, as
\* the rule under a heading or in a table does.
Ruler == "================ 40 ================"

\* '=' * 40 in line
has_separator(line) == line \in {Separator, Ruler}

\* Largest number of lines of an extracted text.
MaxLines == 3

\* The lines an extracted text is made of.
TextLines == {"text", "", Ruler}

Texts == UNION {[1..n -> TextLines] : n \in 1..MaxLines}

\* str.strip() of a string held as lines: the blank lines at its two ends go.
strip(lines) ==
    LET inked == {k \in 1..Len(lines) : lines[k] # ""}
    IN  IF inked = {} THEN <<"">>
        ELSE SubSeq(lines, CHOOSE k \in inked : \A j \in inked : k <= j,
                           CHOOSE k \in inked : \A j \in inked : k >= j)

\* extract_images.py lines 190-212: the header of three separators around the
\* title and the metadata lines, a blank line, the text; the text alone when
\* metadata is None or empty.
save_extracted_text(text, metadata) ==
    IF metadata # <<>>
    THEN <<Separator, "EXTRACTED TEXT METADATA", Separator>> \o metadata
         \o <<Separator, "">> \o text
    ELSE text

\* extract_images.py lines 289-293: the metadata process_images_folder passes.
Metadata == <<"Image: q1.jpeg", "Model: A", "Timestamp: 2024-01-01 00:00:00">>

\* image_text_extractor.py lines 338-348: three header lines, a separator, a
\* blank line, the text, a blank line, a separator and the token line; footer
\* is whether line 348 wrote it (it raises when usage is None).
success_artifact_lines(text, footer) ==
    <<"Image: q1.jpeg", "Model: A", "Retry Round: 1", Separator, "">> \o text
    \o <<"", Separator>>
    \o (IF footer THEN <<"Tokens used: 1", "">> ELSE <<"">>)

\* join_questions.py lines 52-57: the indices of the first two lines holding
\* a separator.
RECURSIVE separator_indices(_, _, _)
separator_indices(lines, idx, found) ==
    IF idx > Len(lines) \/ Len(found) = 2 THEN found
    ELSE separator_indices(lines, idx + 1,
                           IF has_separator(lines[idx]) THEN Append(found, idx) ELSE found)

\* join_questions.py lines 34-64, include_metadata False: what follows the
\* second separator, stripped; the whole content, stripped, if there are not
\* two.
extract_text_content(content) ==
    LET found == separator_indices(content, 1, <<>>)
    IN  IF Len(found) >= 2
        THEN strip(SubSeq(content, found[2] + 1, Len(content)))
        ELSE strip(content)

\* The artifacts written: by save_extracted_text with the metadata of
\* process_images_folder and without, by the batch extractor with the token
\* line and without.
JoinInputs ==
    [writer : {"save_extracted_text"}, text : Texts, metadata : {Metadata, <<>>},
     footer : {FALSE}]
    \cup [writer : {"batch_extract_from_folder"}, text : Texts, metadata : {<<>>},
          footer : BOOLEAN]

JoinInit ==
    /\ BatchIdle
    /\ ClientIdle
    /\ SortIdle
    /\ MainIdle
    /\ SingleIdle
    /\ join_in \in {<<in>> : in \in JoinInputs}
    /\ artifact = <<>>
    /\ join_out = <<>>

\* The extractor writes <stem>_extracted.txt.
WriteArtifact ==
    /\ artifact = <<>>
    /\ LET in == join_in[1]
       IN  artifact' = << IF in.writer = "save_extracted_text"
                          THEN save_extracted_text(in.text, in.metadata)
                          ELSE success_artifact_lines(in.text, in.footer) >>
    /\ UNCHANGED <<join_in, join_out>>
    /\ UNCHANGED <<batch_vars, client_vars, sort_vars, main_vars, single_vars>>

\* join_questions.py lines 128-143 and 206-214: the file is read and handed
\* to extract_text_content.
ReadArtifact ==
    /\ artifact # <<>>
    /\ join_out = <<>>
    /\ join_out' = <<extract_text_content(artifact[1])>>
    /\ UNCHANGED <<join_in, artifact>>
    /\ UNCHANGED <<batch_vars, client_vars, sort_vars, main_vars, single_vars>>

JoinNext == WriteArtifact \/ ReadArtifact

SpecJoin == JoinInit /\ [][JoinNext]_vars

\* ==================================================================== claims

Range(seq) == {seq[k] : k \in 1..Len(seq)}

\* How many entries of the returned list belong to a job.
Occurrences(f) == Cardinality({k \in 1..Len(all_results) : all_results[k].image_path = f})

ResultOf(f) == all_results[CHOOSE k \in 1..Len(all_results) : all_results[k].image_path = f]

\* The tokens recorded in the success artifacts of a set of jobs, added up.
RECURSIVE ArtifactTokens(_)
ArtifactTokens(set) ==
    IF set = {} THEN 0
    ELSE LET f == CHOOSE g \in set : TRUE
         IN  extracted[f].Tokens + ArtifactTokens(set \ {f})

\* The jobs of this run whose success or error artifact this run wrote.
Succeeded == {f \in Range(image_files) : ok_writes[f] # <<>>}
Exhausted == {f \in Range(image_files) : error_writes[f] # <<>>}

\* C1: when a run with max_retry_rounds >= 1 returns, every eligible job (one
\* of image_files after the skip filter) is in the returned list exactly once,
\* as a success whose success artifact this run wrote or as a failure whose
\* error artifact this run wrote, and the list holds nothing else.
C1_OneTerminalOutcome ==
    (pc = "returned" /\ max_retry_rounds >= 1) =>
        /\ \A f \in Range(image_files) :
              /\ Occurrences(f) = 1
              /\ IF ResultOf(f).success
                 THEN f \in DOMAIN extracted /\ f \in Succeeded /\ f \notin Exhausted
                 ELSE f \in DOMAIN errors /\ f \in Exhausted /\ f \notin Succeeded
        /\ \A k \in 1..Len(all_results) : all_results[k].image_path \in Range(image_files)

\* C1 witness: a run of two rounds returned, one job a success, one a failure.
C1_Witness ==
    /\ pc = "returned"
    /\ max_retry_rounds = 2
    /\ Len(image_files) = 2
    /\ \E f, g \in Range(image_files) :
          /\ Occurrences(f) = 1 /\ ResultOf(f).success
          /\ Occurrences(g) = 1 /\ ~ResultOf(g).success
          /\ processed[g] = <<0, 1>>

\* C2: when a run that went through its rounds returns, the report's success
\* and failure counts add up to the number of jobs admitted to round 0, they
\* are the numbers of success and error artifacts the run wrote, and the token
\* total is the sum of the tokens of the successes alone.
C2_SummaryReconciles ==
    (pc = "returned" /\ image_files # <<>>) =>
        /\ summary_report # <<>>
        /\ LET report == summary_report[1]
           IN  /\ report.complete
               /\ report.successful + report.failed = Len(image_files)
               /\ report.total = Len(image_files)
               /\ report.successful = Cardinality(Succeeded)
               /\ report.failed = Cardinality(Exhausted)
               /\ report.total_tokens = ArtifactTokens(Succeeded)

\* C2 witness: a report over a success with tokens and a failure.
C2_Witness ==
    /\ pc = "returned"
    /\ Len(image_files) = 2
    /\ summary_report # <<>>
    /\ summary_report[1].successful = 1
    /\ summary_report[1].failed = 1
    /\ summary_report[1].total_tokens > 0

\* Whether a job was processed in every round 0..max_retry_rounds-1 and never
\* succeeded.
FailedEveryRound(f) ==
    /\ max_retry_rounds >= 1
    /\ processed[f] = [r \in 1..max_retry_rounds |-> r - 1]
    /\ ok_writes[f] = <<>>

FailureEntries(f) ==
    {k \in 1..Len(all_results) : all_results[k].image_path = f /\ ~all_results[k].success}

\* C3: a job that failed in every round has its error artifact written once,
\* in the last round, and is in the results once, as a failure; and no job has
\* an error artifact written or a failure appended in any other way: never in
\* an earlier round, never twice.
C3_ExhaustedOnce ==
    \A f \in Stems :
        /\ FailedEveryRound(f) =>
              /\ error_writes[f] = <<max_retry_rounds - 1>>
              /\ Occurrences(f) = 1
              /\ Cardinality(FailureEntries(f)) = 1
        /\ (error_writes[f] # <<>> \/ FailureEntries(f) # {}) => FailedEveryRound(f)

\* C3 witness: a job failed rounds 0 and 1 of two and was finalized.
C3_Witness ==
    \E f \in Stems :
        /\ max_retry_rounds = 2
        /\ FailedEveryRound(f)
        /\ error_writes[f] = <<1>>
        /\ f \in DOMAIN errors
        /\ errors[f].RetryRounds = 2

\* The rounds 0..k, in order.
RoundsUpTo(k) == [r \in 1..(k + 1) |-> r - 1]

\* Whether a job failed its first k rounds and succeeded in round k.
FailedThenSucceeded(f, k) ==
    /\ k < max_retry_rounds
    /\ ok_writes[f] # <<>>
    /\ ok_writes[f][1] = k
    /\ SubSeq(processed[f], 1, k + 1) = RoundsUpTo(k)

\* The success entries of a job in the returned list.
SuccessEntries(f) ==
    {n \in 1..Len(all_results) : all_results[n].image_path = f /\ all_results[n].success}

\* What holds of a job that failed k rounds and then succeeded: it is
\* processed in rounds 0..k only, its success artifact is written once and
\* records round k+1, and it has no error artifact from this run.
C4_RoundsAndArtifacts ==
    \A f \in Stems : \A k \in 0..MaxRounds :
        FailedThenSucceeded(f, k) =>
            /\ processed[f] = RoundsUpTo(k)
            /\ ok_writes[f] = <<k>>
            /\ extracted[f].RetryRound = k + 1
            /\ error_writes[f] = <<>>

\* C4: a job that fails its first k rounds and then succeeds records exactly
\* k+1 attempts, one per round it was processed in: the attempts of its success
\* result are k+1; it is processed in rounds 0..k only, its success artifact
\* records round k+1 and no error artifact is written for it.
C4_AttemptsPerRound ==
    /\ C4_RoundsAndArtifacts
    /\ \A f \in Stems : \A k \in 0..MaxRounds :
          FailedThenSucceeded(f, k) =>
              \A n \in SuccessEntries(f) : all_results[n].attempts = k + 1

\* C4 witness: a job failed round 0, succeeded in round 1 and is in the
\* returned list as a success.
C4_Witness ==
    \E f \in Stems :
        /\ pc = "returned"
        /\ FailedThenSucceeded(f, 1)
        /\ SuccessEntries(f) # {}

\* A finished call whose models_to_try is the roster [A, B] and whose image
\* could be encoded.
CallOnRosterAB ==
    /\ call_out # <<>>
    /\ call_in[1].readable
    /\ models_to_try(call_in[1].roster, call_in[1].model) = <<"A", "B">>

IsOk(r) == r.kind = "http" /\ r.status = 200 /\ r.choices

\* C5, as amended: given roster [A, B] and retry_with_other_models set (the
\* default), if the service answers A with 429 and B with a successful
\* response, the call yields a success with attempts = 2 whose model is the
\* identifier B's response reports, after exactly two requests, A then B.
C5_Fallback ==
    (/\ CallOnRosterAB
     /\ call_in[1].retry_with_other_models
     /\ call_out[1].script[1] = HttpError(429)
     /\ IsOk(call_out[1].script[2])) =>
        /\ call_out[1].result.success
        /\ call_out[1].result.attempts = 2
        /\ call_out[1].result.model = call_out[1].script[2].model
        /\ call_out[1].calls = <<"A", "B">>

\* C5 witness: A answered 429, B answered with a success that names B.
C5_Witness ==
    /\ CallOnRosterAB
    /\ call_in[1].retry_with_other_models
    /\ call_out[1].seen[1] = HttpError(429)
    /\ Len(call_out[1].seen) = 2
    /\ IsOk(call_out[1].seen[2])
    /\ call_out[1].seen[2].model = "B"
    /\ call_out[1].result.success
    /\ call_out[1].result.model = "B"

\* C5 as stated: given roster [A, B], when A was answered with 429 and B then
\* with a successful response, the call yields a success with attempts = 2 and
\* model B after the two requests A then B.
C5_FallbackAsStated ==
    (/\ CallOnRosterAB
     /\ Len(call_out[1].seen) = 2
     /\ call_out[1].seen[1] = HttpError(429)
     /\ IsOk(call_out[1].seen[2])) =>
        /\ call_out[1].result.success
        /\ call_out[1].result.attempts = 2
        /\ call_out[1].result.model = "B"
        /\ call_out[1].calls = <<"A", "B">>

\* The end-to-end scenario: q1, q2, q3 with two rounds; q1 succeeded in round
\* 0; q2 was answered 429 by every model in round 0 and succeeded in round 1;
\* q3 failed both rounds; the summary report has been written.
EndToEndScenario ==
    /\ folder = {"q1", "q2", "q3"}
    /\ max_retry_rounds = 2
    /\ ok_writes["q1"] = <<0>>
    /\ "q2" \in rate_limited0
    /\ processed["q2"] = <<0, 1>>
    /\ ok_writes["q2"] = <<1>>
    /\ processed["q3"] = <<0, 1>>
    /\ ok_writes["q3"] = <<>>
    /\ summary_report # <<>>

C7_IdempotentRerun ==
    (skip_existing /\ pc # "start") =>
        \A f \in DOMAIN store_at_start :
            /\ f \notin Range(image_files)
            /\ f \notin Range(retry_queue) /\ f \notin Range(current_batch)
            /\ processed[f] = <<>>
            /\ last_call # <<>> => last_call[1].image_file # f
            /\ ok_writes[f] = <<>>
            /\ f \in DOMAIN extracted /\ extracted[f] = store_at_start[f]

\* C7 witness: a second run with skip_existing returned; one job had its
\* success artifact from the first run, another was processed in this run.
C7_Witness ==
    /\ run = 2
    /\ skip_existing
    /\ pc = "returned"
    /\ \E f \in DOMAIN store_at_start, g \in folder :
          /\ f \in folder
          /\ f # g
          /\ processed[f] = <<>>
          /\ processed[g] # <<>>
          /\ last_call[1].calls # <<>>

\* C8: the jobs are processed in natural order: of two files of the folder,
\* the one natural_sort_key puts first (q2 before q10 before q11) is processed
\* before the other.
C8_NaturalOrder ==
    \A a, b \in Range(image_files) :
        natural_lt(FileName(a), FileName(b)) =>
            (processed[b] # <<>> => processed[a] # <<>>)

\* The folder of q2, q10 and q11 with q10 processed and q2 not yet.
C8_Witness ==
    /\ folder = {"q2", "q10", "q11"}
    /\ image_files = <<"q10", "q11", "q2">>
    /\ processed["q10"] # <<>>
    /\ processed["q2"] = <<>>

IsProperPrefix(a, b) == Len(a) < Len(b) /\ SubSeq(b, 1, Len(a)) = a

q1 == <<"q", "1">>
q2 == <<"q", "2">>
q10 == <<"q", "1", "0">>

\* The part of C9 about its example: every arrangement of q1, q10, q2 is
\* sorted into q1, q2, q10.
C9_SortsSample ==
    (sorted_names # <<>> /\ Range(names) = {q1, q2, q10} /\ Len(names) = 3) =>
        sorted_names[1] = <<q1, q2, q10>>

\* C9: sorting with natural_sort_key puts a name that is a proper prefix of
\* another before it, and sorts q1, q10, q2 into q1, q2, q10.
C9_PrefixFirst ==
    sorted_names # <<>> =>
        /\ \A m, n \in 1..Len(sorted_names[1]) :
              IsProperPrefix(sorted_names[1][m], sorted_names[1][n]) => m < n
        /\ C9_SortsSample

\* C9 witness: q00 and q0 were sorted.
C9_Witness ==
    /\ names = << <<"q", "0", "0">>, <<"q", "0">> >>
    /\ sorted_names = << names >>

\* The comparison of two names by their keys.
name_cmp(a, b) == key_cmp(natural_sort_key(a), natural_sort_key(b))

\* C10: the ordering natural_sort_key induces is a total order: any two names
\* are comparable, two distinct names never compare equal, the order is
\* transitive, and the sorted sequence does not depend on the order of the
\* input.
C10_TotalOrder ==
    sorted_names # <<>> =>
        /\ \A a, b \in Range(names) :
              /\ name_cmp(a, b) \in {"lt", "eq", "gt"}
              /\ a # b => name_cmp(a, b) # "eq"
        /\ \A a, b, c \in Range(names) :
              (name_cmp(a, b) = "lt" /\ name_cmp(b, c) = "lt") => name_cmp(a, c) = "lt"
        /\ Len(names) = 2 => sorted_names[1] = natural_sorted(<<names[2], names[1]>>)

\* C10 witness: q1 and q01, two names with the same key, were sorted.
C10_Witness ==
    /\ names = << <<"q", "1">>, <<"q", "0", "1">> >>
    /\ sorted_names = << names >>
    /\ name_cmp(names[1], names[2]) = "eq"

\* C11: when the image cannot be encoded (reading it raises), the call returns
\* a failure and makes no request, whatever the roster, the model argument
\* and the other arguments are.
C11_EncodeFailureNoCall ==
    (call_out # <<>> /\ ~call_in[1].readable) =>
        /\ ~call_out[1].result.success
        /\ call_out[1].calls = <<>>
        /\ call_out[1].seen = <<>>

\* C11 witness: a call on an unreadable image with the roster [A, B] whose
\* service would have answered A with a success.
C11_Witness ==
    /\ call_out # <<>>
    /\ ~call_in[1].readable
    /\ call_in[1].roster = <<"A", "B">>
    /\ call_in[1].model = None
    /\ IsOk(call_out[1].script[1])
    /\ ~call_out[1].result.success
    /\ call_out[1].result.error_type = "OSError"

\* C13: a call on an image file that is readable but empty (zero bytes) returns
\* an encoding failure and makes no request.
C13_EmptyNotEncodable ==
    (call_out # <<>> /\ call_in[1].readable /\ call_in[1].size = 0) =>
        /\ ~call_out[1].result.success
        /\ call_out[1].result.error_type = "OSError"
        /\ call_out[1].calls = <<>>

\* C13 witness: a call on an empty image made a request, with no image data in
\* its payload, and returned the success the service answered.
C13_Witness ==
    /\ call_out # <<>>
    /\ call_in[1].readable
    /\ call_in[1].size = 0
    /\ call_out[1].base64_len = 0
    /\ call_out[1].calls # <<>>
    /\ call_out[1].result.success

\* Whether the latest call of extract_text_from_image returned the encoding
\* failure.
EncodingFailed ==
    /\ last_call # <<>>
    /\ ~last_call[1].result.success
    /\ last_call[1].result.error_type = "OSError"
    /\ last_call[1].calls = <<>>

\* C12: a job whose call returned the encoding failure is not placed in the
\* retry queue, so it is not attempted in a later round.
C12_EncodingNeverRetried ==
    EncodingFailed => last_call[1].image_file \notin Range(retry_queue)

\* C12 witness: the encoding failed in round 0 of two rounds and the batch went
\* on to the next job.
C12_Witness ==
    /\ EncodingFailed
    /\ last_call[1].round = 0
    /\ max_retry_rounds = 2
    /\ Len(current_batch) = 2
    /\ i = 2
    /\ pc = "batch"

\* Whether the latest call of extract_text_from_image ended on HTTP 401.
Fatal ==
    /\ last_call # <<>>
    /\ last_call[1].calls # <<>>
    /\ last_call[1].result.error = HTTPErrorText(401)

\* C14: once a call has been answered 401 the run is aborted: within that run
\* no later call of extract_text_from_image makes a request, for that job or
\* for any other.
C14_FatalAborts ==
    [][(Fatal /\ run' = run) =>
           (last_call' = last_call \/ last_call'[1].calls = <<>>)]_vars

\* C14 witness: in a run of one round q1 was finalized with the 401 it was
\* answered, and after it requests were made for q2.
C14_Witness ==
    /\ max_retry_rounds = 1
    /\ run = 1
    /\ "q1" \in DOMAIN errors
    /\ errors["q1"].Error = HTTPErrorText(401)
    /\ last_call # <<>>
    /\ last_call[1].image_file = "q2"
    /\ last_call[1].calls # <<>>

\* Whether the k-th request of the finished call met a timeout or connection
\* error, or an HTTP 5xx.
Transient(k) ==
    /\ k <= Len(call_out[1].seen)
    /\ \/ call_out[1].seen[k] = Timeout
       \/ call_out[1].seen[k] = HttpError(500)

\* C15: after a request to model M that met a timeout, a connection error or a
\* 5xx, the next request of the call goes to the same model M, and this repeats
\* until max_retries requests have been made.
C15_RetrySameModel ==
    call_out # <<>> =>
        \A k \in 1..Len(call_out[1].seen) :
            (Transient(k) /\ k < call_in[1].max_retries) =>
                /\ Len(call_out[1].calls) > k
                /\ call_out[1].calls[k + 1] = call_out[1].calls[k]

\* C15 witness: with the roster [A, B] the request to A timed out and the next
\* request went to B.
C15_Witness ==
    /\ call_out # <<>>
    /\ call_in[1].max_retries = DefaultMaxRetries
    /\ Len(call_out[1].seen) = 2
    /\ call_out[1].seen[1] = Timeout
    /\ call_out[1].calls = <<"A", "B">>

\* The models the finished call had to try.
ToTry == models_to_try(call_in[1].roster, call_in[1].model)

\* Whether the k-th request of the finished call was answered with status.
Answered(k, status) ==
    /\ k <= Len(call_out[1].seen)
    /\ call_out[1].seen[k] = HttpError(status)

\* After the k-th request: the next request goes to the next model of the
\* roster.
Advances(k) ==
    /\ Len(call_out[1].calls) > k
    /\ call_out[1].calls[k + 1] = ToTry[k + 1]

\* After the k-th request: no further request, the call returns the failure
\* with the text of status.
EndsFailed(k, status) ==
    /\ Len(call_out[1].calls) = k
    /\ ~call_out[1].result.success
    /\ call_out[1].result.error = HTTPErrorText(status)

\* C16, as amended: with retry_with_other_models set, a request answered 429
\* is followed by a request to the next model of the roster if one remains;
\* if none remains, or retry_with_other_models is not set, the call makes no
\* further request and returns a failure.
C16_RateLimitedAdvances ==
    call_out # <<>> =>
        \A k \in 1..Len(call_out[1].seen) :
            Answered(k, 429) =>
                IF call_in[1].retry_with_other_models /\ k < Len(ToTry)
                THEN Advances(k)
                ELSE EndsFailed(k, 429)

\* C16 witness: with the roster [A, B] both models answered 429: the call
\* moved from A to B and then returned the failure.
C16_Witness ==
    /\ CallOnRosterAB
    /\ call_in[1].retry_with_other_models
    /\ Answered(1, 429)
    /\ Answered(2, 429)
    /\ call_out[1].calls = <<"A", "B">>
    /\ ~call_out[1].result.success

\* C16 as stated: a request answered 429 is followed by a request to the next
\* model of the roster if one remains, and ends the call as a failure if none
\* remains.
C16_RateLimitedAsStated ==
    call_out # <<>> =>
        \A k \in 1..Len(call_out[1].seen) :
            Answered(k, 429) =>
                IF k < Len(ToTry) THEN Advances(k) ELSE EndsFailed(k, 429)

\* C17, as amended: a request to model M answered 400 is never followed by
\* another request to M in the same call; with retry_with_other_models set the
\* next request goes to the next model of the roster if one remains; if none
\* remains, or retry_with_other_models is not set, the call makes no further
\* request and returns a failure.
C17_BadRequestAdvances ==
    call_out # <<>> =>
        \A k \in 1..Len(call_out[1].seen) :
            Answered(k, 400) =>
                /\ \A j \in (k + 1)..Len(call_out[1].calls) :
                      call_out[1].calls[j] # call_out[1].calls[k]
                /\ IF call_in[1].retry_with_other_models /\ k < Len(ToTry)
                   THEN Advances(k)
                   ELSE EndsFailed(k, 400)

\* C17 witness: with the roster [A, B], A answered 400 and B was asked next and
\* answered with a success.
C17_Witness ==
    /\ CallOnRosterAB
    /\ call_in[1].retry_with_other_models
    /\ Answered(1, 400)
    /\ call_out[1].calls = <<"A", "B">>
    /\ call_out[1].result.success

\* C17 as stated: a request to M answered 400 is never followed by another
\* request to M; the next request goes to the next model of the roster, or the
\* call ends if none remains.
C17_BadRequestAsStated ==
    call_out # <<>> =>
        \A k \in 1..Len(call_out[1].seen) :
            Answered(k, 400) =>
                /\ \A j \in (k + 1)..Len(call_out[1].calls) :
                      call_out[1].calls[j] # call_out[1].calls[k]
                /\ IF k < Len(ToTry) THEN Advances(k) ELSE EndsFailed(k, 400)

\* The jobs extract_text_from_image was called for in round r, and those of
\* them whose call failed.
AttemptedIn(r) == {f \in Stems : r \in Range(processed[f])}
FailedIn(r) == {f \in AttemptedIn(r) : r \notin Range(ok_writes[f])}

\* RoundQueue(r) of a round that has begun: the jobs round 0 was admitted, the
\* jobs that failed in round r - 1 afterwards.
RoundQueue(r) == IF r = 0 THEN Range(image_files) ELSE FailedIn(r - 1)

NoRepeats(seq) == Cardinality(Range(seq)) = Len(seq)

\* C18: the queue a round works on is exactly RoundQueue: all eligible jobs in
\* round 0, and in round r + 1 exactly the jobs of round r that failed, each
\* once; the queue handed to the next round holds exactly those jobs; a job
\* that succeeded is in no later queue and is not attempted again; and no job
\* is attempted in round r + 1 before every job of RoundQueue(r) has been
\* attempted in round r.
C18_RoundQueue ==
    /\ pc = "batch" =>
          /\ Range(current_batch) = RoundQueue(retry_round)
          /\ NoRepeats(current_batch)
          /\ RoundQueue(retry_round) \subseteq
                 (IF retry_round = 0 THEN Range(image_files)
                  ELSE AttemptedIn(retry_round - 1))
    /\ (pc = "loop" /\ retry_round >= 1 /\ retry_round < max_retry_rounds) =>
          /\ Range(retry_queue) = FailedIn(retry_round - 1)
          /\ NoRepeats(retry_queue)
    /\ \A f \in Stems :
          ok_writes[f] # <<>> =>
              /\ f \notin Range(retry_queue)
              /\ processed[f][Len(processed[f])] = ok_writes[f][1]
              /\ (pc = "batch" /\ retry_round > ok_writes[f][1]) =>
                     f \notin Range(current_batch)
    /\ \A r \in 0..MaxRounds :
          AttemptedIn(r + 1) # {} => RoundQueue(r) \subseteq AttemptedIn(r)

\* C18 witness: of two jobs one succeeded and one failed in round 0, and round
\* 1 works on the failed one alone.
C18_Witness ==
    /\ pc = "batch"
    /\ retry_round = 1
    /\ Len(image_files) = 2
    /\ Cardinality(FailedIn(0)) = 1
    /\ Range(current_batch) = FailedIn(0)
    /\ AttemptedIn(1) = FailedIn(0)

\* Whether a cooldown was made before round r, and how many.
CooldownsBefore(r) == {k \in 1..Len(sleeps) : sleeps[k].before_round = r}

\* C20: a round r + 1 that has a non-empty queue is preceded by exactly one
\* cooldown, made before its first attempt, of CooldownStep * (r + 1) seconds,
\* so each cooldown is longer than the one before; and a cooldown is made only
\* then: none when no job failed in round r, none after the last round.
C20_Cooldown ==
    /\ \A r \in 1..(MaxRounds + 1) :
          \/ AttemptedIn(r) # {}
          \/ (pc = "loop" /\ retry_round = r /\ retry_queue # <<>>)
          \/ (pc = "batch" /\ retry_round = r)
          => Cardinality(CooldownsBefore(r)) = 1
    /\ \A k \in 1..Len(sleeps) :
          /\ sleeps[k].before_round = k
          /\ sleeps[k].seconds = CooldownStep * k
          /\ k > 1 => sleeps[k].seconds > sleeps[k - 1].seconds
          /\ FailedIn(k - 1) # {}
          /\ k < max_retry_rounds
          /\ k <= retry_round

\* C20 witness: a run of three rounds slept 5 seconds before round 1 and 10
\* before round 2, and returned after the third round with the job failed.
C20_Witness ==
    /\ pc = "returned"
    /\ max_retry_rounds = 3
    /\ retry_round = 3
    /\ Len(sleeps) = 2
    /\ sleeps[1].seconds = 5
    /\ sleeps[2].seconds = 10
    /\ errors # EmptyStore

\* batch_extract_from_folder has ended: it returned, or an exception left it.
Halted == pc \in {"returned", "crashed"}

\* C19: every run of batch_extract_from_folder halts; it never attempts a job
\* in a round beyond max_retry_rounds - 1, so it executes at most
\* max_retry_rounds rounds; and once a round leaves the queue empty no further
\* round begins: the next step is the end of the loop.
C19_Halts ==
    /\ (pc = "start") ~> Halted
    /\ [](/\ retry_round <= max_retry_rounds
          /\ \A f \in Stems : \A r \in Range(processed[f]) : r < max_retry_rounds)
    /\ [][(pc = "loop" /\ retry_queue = <<>>) => Halted']_vars

\* C19 witness: a run allowed three rounds returned after the first, in which
\* both of its jobs succeeded.
C19_Witness ==
    /\ pc = "returned"
    /\ max_retry_rounds = 3
    /\ retry_round = 1
    /\ Len(image_files) = 2
    /\ Len(all_results) = 2
    /\ retry_queue = <<>>

\* Whether no job was processed in this run.
NothingProcessed == \A f \in Stems : processed[f] = <<>>

\* C21: a run that ends with zero processed jobs (no image found, every job
\* skipped, or max_retry_rounds = 0) has returned, not raised, and has written
\* a complete report that states zero jobs.
C21_ZeroJobsReport ==
    (Halted /\ NothingProcessed) =>
        /\ pc = "returned"
        /\ summary_report # <<>>
        /\ summary_report[1].complete
        /\ summary_report[1].total = 0

\* C21 witness: with max_retry_rounds = 0 a run that found an image raised in
\* the report, after the counts and before the end of the file.
C21_Witness ==
    /\ pc = "crashed"
    /\ max_retry_rounds = 0
    /\ image_files # <<>>
    /\ NothingProcessed
    /\ summary_report # <<>>
    /\ summary_report[1].total = 0
    /\ ~summary_report[1].complete

\* The success artifacts and the error artifacts of the folder's images that
\* are in the output folder.
SuccessArtifacts == DOMAIN extracted \cap folder
ErrorArtifacts == DOMAIN errors \cap folder

\* C22: after a second run with skip_existing that processed the jobs the
\* first run left, the report's success and failure counts are the numbers of
\* success and error artifacts in the output folder.
C22_ReconcilesAfterRerun ==
    (/\ run = 2
     /\ skip_existing
     /\ pc = "returned"
     /\ store_at_start # EmptyStore
     /\ image_files # <<>>) =>
        /\ summary_report[1].successful = Cardinality(SuccessArtifacts)
        /\ summary_report[1].failed = Cardinality(ErrorArtifacts)

\* C22 witness: the first run persisted q1 and finalized q2 as failed; the
\* second run skipped q1, processed q2 with success and reported that alone.
C22_Witness ==
    /\ run = 2
    /\ skip_existing
    /\ pc = "returned"
    /\ DOMAIN store_at_start = {"q1"}
    /\ image_files = <<"q2">>
    /\ ok_writes["q2"] # <<>>
    /\ extracted["q1"].footer /\ extracted["q2"].footer
    /\ summary_report[1].complete
    /\ summary_report[1].total = 1
    /\ summary_report[1].successful = 1
    /\ SuccessArtifacts = {"q1", "q2"}
    /\ ErrorArtifacts = {"q2"}

\* Whether the latest call returned a success whose response had no usage.
SucceededWithoutUsage ==
    /\ last_call # <<>>
    /\ last_call[1].result.success
    /\ ~last_call[1].result.usage.present

\* C23: a job whose successful response has no usage is persisted as a success:
\* its artifact carries the model the service reported, the result is in the
\* returned list with no tokens, and the run goes on (it has not raised).
C23_MissingUsageIsAbsent ==
    SucceededWithoutUsage =>
        LET f == last_call[1].image_file
        IN  /\ pc # "crashed"
            /\ f \in DOMAIN extracted
            /\ extracted[f].Model = last_call[1].result.model
            /\ SuccessEntries(f) # {}
            /\ \A n \in SuccessEntries(f) : all_results[n].usage.total_tokens = 0

\* C23 witness: of two jobs the first got a success without usage; its artifact
\* has no token line, the run raised and the second job was never attempted.
C23_Witness ==
    /\ SucceededWithoutUsage
    /\ pc = "crashed"
    /\ Len(image_files) = 2
    /\ last_call[1].image_file = image_files[1]
    /\ ~extracted[image_files[1]].footer
    /\ all_results = <<>>
    /\ processed[image_files[2]] = <<>>

\* What ends a run with an exception: a success without usage, or the report
\* over no result. A failure returned by extract_text_from_image never does.
C24_FailureDoesNotRaise ==
    pc = "crashed" => (SucceededWithoutUsage \/ NothingProcessed)

\* C24: once a job has failed in a round, every job of that round's queue is
\* attempted in that round and the run goes on to its summary: when the run
\* has ended, it returned with a complete report.
C24_FailuresNeverAbort ==
    Halted =>
        \A r \in 0..MaxRounds :
            FailedIn(r) # {} =>
                /\ RoundQueue(r) \subseteq AttemptedIn(r)
                /\ pc = "returned"
                /\ summary_report # <<>>
                /\ summary_report[1].complete

\* C24 witness: q1 failed in round 0, then q2 got a success without usage and
\* the run raised: no summary.
C24_Witness ==
    /\ pc = "crashed"
    /\ image_files = <<"q1", "q2">>
    /\ FailedIn(0) = {"q1"}
    /\ SucceededWithoutUsage
    /\ last_call[1].image_file = "q2"
    /\ summary_report = <<>>

\* The jobs of a run that have neither a success nor a final failure yet.
Unresolved == Range(image_files) \ (Succeeded \cup Exhausted)

\* Whether job f is recorded as a cancelled failure: in the results and in
\* the store.
RecordedCancelled(f) ==
    /\ \E n \in 1..Len(all_results) :
          /\ all_results[n].image_path = f
          /\ ~all_results[n].success
          /\ all_results[n].error_type = "Cancelled"
    /\ f \in DOMAIN errors
    /\ errors[f].ErrorType = "Cancelled"

\* C25: when a run in progress has been cancelled, every job not yet resolved
\* is recorded as a failure of type Cancelled in the results and the store,
\* and the summary is written over all jobs.
C25_CancelFinalizes ==
    pc = "interrupted" =>
        /\ \A f \in Unresolved : RecordedCancelled(f)
        /\ summary_report # <<>>
        /\ summary_report[1].total = Len(image_files)

\* C25, the half the code keeps: after the cancellation nothing is attempted
\* and nothing is written.
C25_NoNewAttempts ==
    [][pc = "interrupted" => UNCHANGED vars]_vars

\* C25 witness: the run was cancelled after q1 succeeded and before q2 was
\* attempted; q2 is in no result and has no artifact, and there is no summary.
C25_Witness ==
    /\ pc = "interrupted"
    /\ image_files = <<"q1", "q2">>
    /\ Succeeded = {"q1"}
    /\ Unresolved = {"q2"}
    /\ processed["q2"] = <<>>
    /\ Occurrences("q2") = 0
    /\ "q2" \notin DOMAIN errors
    /\ summary_report = <<>>

\* Whether the latest call ended on HTTP 429: its last attempt was classified
\* as rate limited and the call returned the failure.
EndedRateLimited ==
    /\ last_call # <<>>
    /\ ~last_call[1].result.success
    /\ last_call[1].result.error = HTTPErrorText(429)

\* Whether the batch is about to make the next call.
NextCallDue == pc = "batch" /\ i <= Len(current_batch)

\* C26: after an attempt was classified as rate limited, the next attempt of
\* the run, for any job, is made only after the run has paused.
C26_RunWideGate ==
    (EndedRateLimited /\ NextCallDue) => paused > 0

\* C26, between rounds: a job that ended a round rate limited and is queued
\* again is attempted in the next round only after that round's cooldown.
C26_PausedBetweenRounds ==
    (EndedRateLimited /\ NextCallDue /\ i = 1) => paused >= CooldownStep * retry_round

\* C26 witness: with delay_seconds 0, q1 was answered 429 by the only model
\* tried and q2 is due in the same round with no second slept in between.
C26_Witness ==
    /\ delay_seconds = 0
    /\ EndedRateLimited
    /\ last_call[1].image_file = "q1"
    /\ last_call[1].calls = <<"B">>
    /\ NextCallDue
    /\ current_batch = <<"q1", "q2">>
    /\ i = 2
    /\ paused = 0

\* The key main() is given: the flag's, or else the environment's.
SuppliedKey == or_else(args_api_key, env_api_key)

\* Whether nothing of the batch has happened: no discovery, no call, no file.
BatchUntouched ==
    /\ pc = "start"
    /\ discovered = <<>>
    /\ last_call = <<>>
    /\ NothingProcessed
    /\ extracted = EmptyStore
    /\ errors = EmptyStore
    /\ summary_report = <<>>

\* C27: with no key by flag or environment main ends before the batch starts:
\* no job is processed and no request is made. With a key that does not start
\* with the expected prefix main prints the warning and nothing else, is never
\* refused, and the batch it runs ends with its report over every job.
C27_CredentialHandling ==
    /\ SuppliedKey = <<>> =>
          /\ main_pc \in {"start", "refused"}
          /\ BatchUntouched
    /\ main_pc = "refused" => SuppliedKey = <<>> /\ printed = <<"no API key">>
    /\ (SuppliedKey # <<>> /\ main_pc # "start") =>
          /\ main_pc \in {"batch", "done", "raised"}
          /\ api_key = SuppliedKey
          /\ printed = IF startswith(SuppliedKey, KeyPrefix)
                       THEN <<>> ELSE <<"key format">>
          /\ (main_pc = "done" /\ image_files # <<>>) =>
                /\ Range(image_files) = Succeeded \cup Exhausted
                /\ summary_report # <<>>
                /\ summary_report[1].complete
                /\ summary_report[1].total = Len(image_files)

\* C27 witness: the environment's key is of another format; main warned, ran
\* the batch on two jobs and ended with one success and one failure.
C27_Witness ==
    /\ args_api_key = <<>>
    /\ env_api_key = <<"s", "k", "-", "1">>
    /\ printed = <<"key format">>
    /\ main_pc = "done"
    /\ image_files = <<"q1", "q2">>
    /\ Succeeded = {"q1"}
    /\ Exhausted = {"q2"}
    /\ summary_report[1].successful = 1
    /\ summary_report[1].failed = 1

\* C27 witness of the other half: no key, main has returned, nothing happened.
C27_RefusedReached ==
    main_pc = "refused" /\ SuppliedKey = <<>> /\ BatchUntouched

\* Whether a response is a 4xx status other than 429.
ClientError(r) == r.kind = "http" /\ r.status >= 400 /\ r.status < 500 /\ r.status # 429

\* C28: in the single-model client a 4xx response other than 429 ends the
\* call: it is the last request made, and the call returns a failure.
C28_ClientErrorNotRetried ==
    single_out # <<>> =>
        \A k \in 1..single_out[1].calls :
            ClientError(single_out[1].seen[k]) =>
                /\ single_out[1].calls = k
                /\ ~single_out[1].text

\* C28 witness: the first request was answered 400, the call waited a second
\* and asked again, was answered 401, waited two and asked a third time.
C28_Witness ==
    /\ single_out # <<>>
    /\ single_in[1].max_retries = 3
    /\ single_out[1].calls = 3
    /\ single_out[1].seen[1] = HttpError(400)
    /\ single_out[1].seen[2] = HttpError(401)
    /\ single_out[1].seen[3] = HttpError(400)
    /\ single_out[1].waits = <<[after |-> 0, seconds |-> 1], [after |-> 1, seconds |-> 2]>>
    /\ single_out[1].error = "Network error after all retries"

\* Whether a response makes the single-model client try again when it may.
Retryable(r) == r.kind \in {"timeout", "network"} \/ (r.kind = "http" /\ r.status >= 400)

\* The seconds the client waits after attempt index a met response r.
WaitAfter(r, a) == IF r.kind = "http" /\ r.status = 429 THEN RateLimitWait ELSE 2 ^ a

\* C29: a call of the single-model client makes at most max_retries requests;
\* every request but the last it makes is followed by one wait, of 60 seconds
\* after a 429 and of 2^i seconds after attempt index i otherwise, and the
\* last request by none; an answer that calls for a retry on the final attempt
\* ends the call with a failure, and so does max_retries = 0, without a request.
C29_BoundedRetries ==
    single_out # <<>> =>
        LET out == single_out[1]
            max_retries == single_in[1].max_retries
        IN  /\ out.calls <= max_retries
            /\ Len(out.waits) = (IF out.calls = 0 THEN 0 ELSE out.calls - 1)
            /\ \A k \in 1..Len(out.waits) :
                  /\ out.waits[k].after = k - 1
                  /\ out.waits[k].after < max_retries - 1
                  /\ Retryable(out.seen[k])
                  /\ out.waits[k].seconds = WaitAfter(out.seen[k], k - 1)
            /\ (out.calls >= 1 /\ out.calls < max_retries) => ~Retryable(out.seen[out.calls])
            /\ (out.calls >= 1 /\ Retryable(out.seen[out.calls])) =>
                  /\ out.calls = max_retries
                  /\ ~out.text
                  /\ out.error # None
            /\ (single_in[1].readable /\ max_retries = 0) =>
                  /\ out.calls = 0
                  /\ ~out.text
                  /\ out.error = "Failed after all retries"

\* C29 witness: three attempts; a 429, then a connection error, then a 500:
\* the call waited 60 and 2 seconds, did not wait after the third answer and
\* returned a failure.
C29_Witness ==
    /\ single_out # <<>>
    /\ single_in[1].max_retries = 3
    /\ single_out[1].calls = 3
    /\ single_out[1].seen = <<HttpError(429), ConnectionError, HttpError(500)>>
    /\ single_out[1].waits = <<[after |-> 0, seconds |-> 60], [after |-> 1, seconds |-> 2]>>
    /\ ~single_out[1].text
    /\ single_out[1].error = "Server error after all retries"

\* Whether calls is the roster to_try, in its order, up to some model.
InRosterOrder(calls, to_try) ==
    Len(calls) <= Len(to_try) /\ calls = SubSeq(to_try, 1, Len(calls))

\* C30: the requests of one call go to the models of the roster in its order,
\* one request a model at most, so a call makes at most |roster| requests;
\* with a model argument the only model asked is that one; and a job is
\* called once a round at most, in max_retry_rounds rounds at most, which
\* bounds its requests in a run by max_retry_rounds * |roster|.
C30_OneCallPerModel ==
    /\ last_call # <<>> =>
          LET calls == last_call[1].calls
          IN  /\ NoRepeats(calls)
              /\ Len(calls) <= Len(vision_models)
              /\ model = None => InRosterOrder(calls, vision_models)
              /\ model # None => calls \in {<<>>, <<model>>}
              /\ (model # None /\ last_call[1].result.error_type # "OSError") =>
                    calls = <<model>>
    /\ \A f \in Stems :
          /\ NoRepeats(processed[f])
          /\ Len(processed[f]) <= max_retry_rounds

\* C30 witness: with no model argument q1 is in its third round, the last the
\* run allows, and its call has asked both models of the roster in order.
C30_Witness ==
    /\ model = None
    /\ max_retry_rounds = 3
    /\ processed["q1"] = <<0, 1, 2>>
    /\ last_call # <<>>
    /\ last_call[1].image_file = "q1"
    /\ last_call[1].calls = vision_models
    /\ Len(vision_models) = 2

\* C30 witness with a model argument: the only model asked is that one,
\* though it answered 429 and the roster holds another model.
C30_ExplicitModelReached ==
    /\ model = "B"
    /\ last_call # <<>>
    /\ last_call[1].calls = <<"B">>
    /\ EndedRateLimited

\* C30 for single calls with every roster, retry_with_other_models and
\* max_retries: the requests follow models_to_try in order, one a model.
C30_SingleCallOrder ==
    call_out # <<>> =>
        /\ InRosterOrder(call_out[1].calls, ToTry)
        /\ NoRepeats(call_out[1].calls) \/ ~NoRepeats(ToTry)
        /\ call_in[1].model # None => call_out[1].calls \in {<<>>, <<call_in[1].model>>}

\* Whether the while loop of line 310 has been left in this run: its
\* condition has just failed, or the run has ended after it, by returning
\* with jobs or by raising in the report (and not at line 348, in the loop).
LoopLeft ==
    \/ pc = "loop" /\ ~loop_condition
    \/ pc = "returned" /\ image_files # <<>>
    \/ pc = "crashed" /\ ~SucceededWithoutUsage

\* C31: in a run with max_retry_rounds >= 1, once the round loop has been
\* left the retry queue is empty, so the test `if retry_queue` of line 393
\* fails and the list of images left in the queue is never printed.
C31_QueueEmptyAtExit ==
    (max_retry_rounds >= 1 /\ LoopLeft) => retry_queue = <<>>

\* C31 witness: the loop was left after the second and last round, in which
\* q1 failed again: its failure was written and recorded, not queued.
C31_Witness ==
    /\ max_retry_rounds = 2
    /\ pc = "loop"
    /\ ~loop_condition
    /\ retry_round = 2
    /\ processed["q1"] = <<0, 1>>
    /\ error_writes["q1"] = <<1>>
    /\ Occurrences("q1") = 1
    /\ retry_queue = <<>>

\* Without a round the loop is left with every job queued; the report raises
\* over the empty results before line 393 is reached.
C31_NoRoundReached ==
    /\ max_retry_rounds = 0
    /\ pc = "crashed"
    /\ retry_queue = image_files
    /\ retry_queue # <<>>

\* The jobs that have both artifacts in the output folder.
BothArtifacts == DOMAIN extracted \cap DOMAIN errors

\* C32: whenever a run has ended, after any number of runs on the same
\* folders, no job has both a success artifact and an error artifact.
C32_OneArtifactPerJob ==
    Halted => BothArtifacts = {}

\* C32 witness: run 1 ended with q1 failed in every round and its error
\* artifact written; run 2 did not skip q1, q1 succeeded, run 2 wrote no
\* error artifact, and the one of run 1 is still in the folder.
C32_Witness ==
    /\ run = 2
    /\ pc = "returned"
    /\ skip_existing
    /\ folder = {"q1"}
    /\ store_at_start = EmptyStore
    /\ image_files = <<"q1">>
    /\ ok_writes["q1"] # <<>>
    /\ error_writes["q1"] = <<>>
    /\ "q1" \in DOMAIN extracted
    /\ "q1" \in DOMAIN errors
    /\ summary_report[1].failed = 0

\* Within one run that started on an empty output folder no job gets both.
C32_OneArtifactInFirstRun ==
    run = 1 => BothArtifacts = {}

\* Whether the artifact read is one of the two layouts with a header.
WithHeader ==
    join_in[1].writer = "batch_extract_from_folder" \/ join_in[1].metadata # <<>>

\* The lines of the artifact that are no line of the extracted text.
MetadataLines ==
    {"EXTRACTED TEXT METADATA", "Tokens used: 1", "Image: q1.jpeg", "Model: A",
     "Retry Round: 1", Separator} \cup Range(Metadata)

\* C33: what the joiner returns for a success artifact written with a header,
\* by either extractor, is the extracted text, stripped: no metadata line is
\* in it and no line of the text is lost.
C33_RoundTrip ==
    (join_out # <<>> /\ WithHeader) =>
        /\ join_out[1] = strip(join_in[1].text)
        /\ Range(join_out[1]) \cap MetadataLines = {}

\* C33 witness: the batch extractor wrote the text of one line with its
\* token line; the joiner returns the token line and nothing of the text.
C33_Witness ==
    /\ join_out # <<>>
    /\ join_in[1].writer = "batch_extract_from_folder"
    /\ join_in[1].footer
    /\ join_in[1].text = <<"text">>
    /\ join_out[1] = <<"Tokens used: 1">>

\* The artifact of save_extracted_text with metadata: the joiner returns the
\* metadata lines and the closing separator before the text.
C33_MetadataKept ==
    /\ join_out # <<>>
    /\ join_in[1].writer = "save_extracted_text"
    /\ join_in[1].metadata = Metadata
    /\ join_in[1].text = <<"text">>
    /\ join_out[1] = Metadata \o <<Separator, "", "text">>

\* Without a header the text comes back stripped, provided it holds fewer
\* than two lines with forty "=".
C33_PlainTextRoundTrip ==
    (join_out # <<>> /\ ~WithHeader
     /\ Cardinality({k \in 1..Len(join_in[1].text) : has_separator(join_in[1].text[k])}) < 2) =>
        join_out[1] = strip(join_in[1].text)

====
